---- MODULE Spec2Model ----
(***************************************************************************)
(* Market Research Assistant (src/app.py): the text metrics                *)
(* (word_count, enforce_word_limits), the industry classifier              *)
(* (is_valid_industry), and the "Generate Report" handler that sequences   *)
(* classifier -> retriever -> section-wise synthesis.                      *)
(*                                                                         *)
(* A text is a sequence of one-character strings.  Positions are Python    *)
(* offsets: 0-based, a slice text[:n] is SubSeq(text, 1, n).               *)
(***************************************************************************)
EXTENDS Integers, Sequences, FiniteSets, TLC

\* ------------------------------------------------------------------ bounds
MaxLen == 5         \* longest text given to enforce_word_limits directly
MaxBound == 3       \* min_words and max_words range over 0..MaxBound
MaxIndustryLen == 3 \* longest industry text typed in
MaxPages == 1       \* most titles a search returns
InBandWords == 92   \* words of a section reply that keeps to its band
OverBandWords == 101 \* words of a section reply that overshoots its band

\* ------------------------------------------------------ program constants
MIN_WORDS == 450    \* enforce_word_limits default min_words
MAX_WORDS == 500    \* enforce_word_limits default max_words

\* --------------------------------------------------------------- characters
NL == "\n"
CR == "\r"
NUL == "<NUL>"      \* stands for the one character "\u0000"
LowerAlpha == <<"a", "b", "c", "d", "e", "f", "g", "h", "i", "j", "k", "l", "m",
                "n", "o", "p", "q", "r", "s", "t", "u", "v", "w", "x", "y", "z">>
UpperAlpha == <<"A", "B", "C", "D", "E", "F", "G", "H", "I", "J", "K", "L", "M",
                "N", "O", "P", "Q", "R", "S", "T", "U", "V", "W", "X", "Y", "Z">>
Letters == {LowerAlpha[i] : i \in DOMAIN LowerAlpha}
               \cup {UpperAlpha[i] : i \in DOMAIN UpperAlpha}
Digits == {"0", "1", "2", "3", "4", "5", "6", "7", "8", "9"}
\* \w of a Python str pattern: alphanumerics and the underscore
WordChars == Letters \cup Digits \cup {"_"}
\* str.strip()/rstrip() and \s: whitespace
Spaces == {" ", "\t", NL, CR}
Terminators == {".", "!", "?"}

IsWordChar(c) == c \in WordChars
IsSpace(c) == c \in Spaces

SetMin(S) == CHOOSE x \in S : \A y \in S : x <= y
SetMax(S) == 0 - SetMin({0 - x : x \in S})

\* All sequences over A of length at most n
TextsUpTo(A, n) == UNION {[1..k -> A] : k \in 0..n}

\* ------------------------------------------------------------ str helpers
\* s.rstrip()
RStrip(s) ==
    LET keep == {i \in 1..Len(s) : ~IsSpace(s[i])}
    IN  IF keep = {} THEN <<>> ELSE SubSeq(s, 1, SetMax(keep))

\* s.strip()
Strip(s) ==
    LET keep == {i \in 1..Len(s) : ~IsSpace(s[i])}
    IN  IF keep = {} THEN <<>> ELSE SubSeq(s, SetMin(keep), SetMax(keep))

\* s.rfind(c): highest offset of c in s, -1 when absent
RFind(s, c) ==
    LET at == {i \in 0..(Len(s) - 1) : s[i + 1] = c}
    IN  IF at = {} THEN -1 ELSE SetMax(at)

\* s.endswith((".", "!", "?"))
EndsWithTerminator(s) == Len(s) > 0 /\ s[Len(s)] \in Terminators

\* --------------------------------------------------------------- word regex
\* The end offsets of the matches of r"\b\w+\b": the maximal runs of word
\* characters (a run ends where the next character is not a word character).
MatchEnds(text) ==
    {j \in 1..Len(text) :
        IsWordChar(text[j]) /\ (j = Len(text) \/ ~IsWordChar(text[j + 1]))}

\* word_count(text): len(re.findall(r"\b\w+\b", text))
word_count(text) == Cardinality(MatchEnds(text))

\* a variant whose cut falls one character short of the word's end
OffByOneMatchEnd(text, idx) ==
    LET ends == MatchEnds(text)
        n    == Cardinality(ends)
        pos  == IF idx >= 0 THEN idx + 1 ELSE n + idx + 1
        e    == CHOOSE e \in ends : Cardinality({x \in ends : x <= e}) = pos
    IN  e - 1

\* matches[idx].end() with Python list indexing: idx < 0 counts from the end
MatchEnd(text, idx) ==
    LET ends == MatchEnds(text)
        n    == Cardinality(ends)
        pos  == IF idx >= 0 THEN idx + 1 ELSE n + idx + 1
    IN  CHOOSE e \in ends : Cardinality({x \in ends : x <= e}) = pos

\* ------------------------------------------------------ enforce_word_limits
Result(t, s) == [text |-> t, status |-> s]

\* the backward trim to the last sentence terminator
TrimToSentence(truncated) ==
    IF ~EndsWithTerminator(truncated)
    THEN LET last_end == SetMax({RFind(truncated, "."),
                                 RFind(truncated, "!"),
                                 RFind(truncated, "?")})
         IN  IF last_end # -1 THEN SubSeq(truncated, 1, last_end + 1)
                              ELSE truncated
    ELSE truncated

\* a version that tidies the too-short text before returning it
EnforceStripsShort(text, min_words, max_words) ==
    LET count == word_count(text)
    IN  IF count > max_words
        THEN LET cutoff_pos == MatchEnd(text, max_words - 1)
                 truncated  == RStrip(SubSeq(text, 1, cutoff_pos))
             IN  Result(TrimToSentence(truncated), "truncated")
        ELSE IF count < min_words THEN Result(Strip(text), "too_short")
        ELSE Result(text, "ok")

\* a version that truncates already at count = max_words
EnforceInclusiveMax(text, min_words, max_words) ==
    LET count == word_count(text)
    IN  IF count >= max_words /\ count > 0
        THEN LET cutoff_pos == MatchEnd(text, max_words - 1)
                 truncated  == RStrip(SubSeq(text, 1, cutoff_pos))
             IN  Result(TrimToSentence(truncated), "truncated")
        ELSE IF count < min_words THEN Result(text, "too_short")
        ELSE Result(text, "ok")

\* enforce_word_limits as written: the over-max test first, then the under-min
enforce_word_limits(text, min_words, max_words) ==
    LET count == word_count(text)
    IN  IF count > max_words
        THEN LET cutoff_pos == MatchEnd(text, max_words - 1)
                 truncated  == RStrip(SubSeq(text, 1, cutoff_pos))
             IN  Result(TrimToSentence(truncated), "truncated")
        ELSE IF count < min_words THEN Result(text, "too_short")
        ELSE Result(text, "ok")

\* ------------------------------------------------------------- case maps
\* str.lower() / str.upper() of one character
Lower(c) ==
    IF \E i \in DOMAIN UpperAlpha : UpperAlpha[i] = c
    THEN LowerAlpha[CHOOSE i \in DOMAIN UpperAlpha : UpperAlpha[i] = c]
    ELSE c
Upper(c) ==
    IF \E i \in DOMAIN LowerAlpha : LowerAlpha[i] = c
    THEN UpperAlpha[CHOOSE i \in DOMAIN LowerAlpha : LowerAlpha[i] = c]
    ELSE c
LowerText(s) == [i \in 1..Len(s) |-> Lower(s[i])]
UpperText(s) == [i \in 1..Len(s) |-> Upper(s[i])]

\* s with every character of the set cs removed (str.replace(c, ""))
Without(s, cs) == SelectSeq(s, LAMBDA c : c \notin cs)

\* ------------------------------------------------- generation provider reply
\* A reply of client.models.generate_content: the call raises, or returns a
\* response with candidates; a candidate's content holds parts, a part may
\* carry text.  content_ok = FALSE is a candidate without content (reading
\* .parts of it raises).
TextPart(t) == [has_text |-> TRUE, text |-> t]
DataPart == [has_text |-> FALSE, text |-> <<>>]
Candidate(parts) == [content_ok |-> TRUE, parts |-> parts]
Response(cands) == [raises |-> FALSE, candidates |-> cands]
Reply(t) == Response(<<Candidate(<<TextPart(t)>>)>>)
ProviderError == [raises |-> TRUE, candidates |-> <<>>]
NoCandidates == Response(<<>>)
NoContent == Response(<<[content_ok |-> FALSE, parts |-> <<>>]>>)

RECURSIVE ConcatText(_)
ConcatText(parts) ==
    IF parts = <<>> THEN <<>>
    ELSE (IF Head(parts).has_text THEN Head(parts).text ELSE <<>>)
             \o ConcatText(Tail(parts))

\* extract_text_from_response raises (AttributeError) on a candidate without content
ExtractRaises(response) ==
    response.candidates # <<>> /\ ~response.candidates[1].content_ok

extract_text_from_response(response) ==
    LET text_output == IF response.candidates # <<>>
                       THEN ConcatText(response.candidates[1].parts)
                       ELSE <<>>
    IN  Strip(Without(text_output, {NUL, CR}))

\* -------------------------------------------------------- is_valid_industry
\* the "hard reject" of is_valid_industry; TRUE when the text passes
GateChars == Letters \cup Digits \cup {" ", "\t", NL, CR} \cup {"&", ",", ".", "-", "/"}
IsDigit(t) == Len(t) > 0 /\ \A i \in 1..Len(t) : t[i] \in Digits

\* a variant without the isdigit() rejection
GateSkipsDigitCheck(t) ==
    /\ ~(Len(t) < 3)
    /\ Len(t) > 0 /\ \A i \in 1..Len(t) : t[i] \in GateChars

\* the gate as written
SyntacticGate(t) ==
    /\ ~(Len(t) < 3)
    /\ ~IsDigit(t)
    /\ Len(t) > 0 /\ \A i \in 1..Len(t) : t[i] \in GateChars

\* load_bls_industries, the parse: [m.strip().lower() for m in matches if m.strip()]
RECURSIVE ParseBls(_)
ParseBls(matches) ==
    IF matches = <<>> THEN <<>>
    ELSE (IF Strip(Head(matches)) # <<>>
          THEN <<LowerText(Strip(Head(matches)))>> ELSE <<>>)
             \o ParseBls(Tail(matches))

\* difflib.SequenceMatcher(a, b): total size of the matching blocks, found by
\* the longest block (earliest in a, then earliest in b), then left and right
\* of it
RECURSIVE MatchingSize(_, _)
MatchingSize(a, b) ==
    LET blocks == {m \in (1..Len(a)) \X (1..Len(b)) \X (1..Len(a)) :
                      /\ m[1] + m[3] - 1 <= Len(a)
                      /\ m[2] + m[3] - 1 <= Len(b)
                      /\ SubSeq(a, m[1], m[1] + m[3] - 1)
                            = SubSeq(b, m[2], m[2] + m[3] - 1)}
    IN  IF blocks = {} THEN 0
        ELSE LET k == SetMax({m[3] : m \in blocks})
                 i == SetMin({m[1] : m \in {x \in blocks : x[3] = k}})
                 j == SetMin({m[2] : m \in {x \in blocks : x[3] = k /\ x[1] = i}})
             IN  k + MatchingSize(SubSeq(a, 1, i - 1), SubSeq(b, 1, j - 1))
                   + MatchingSize(SubSeq(a, i + k, Len(a)), SubSeq(b, j + k, Len(b)))

\* get_close_matches(word, possibilities, n=1, cutoff=0.6) is non-empty:
\* some x has ratio 2*M/(len(x)+len(word)) >= 0.6.  The caller reads only
\* whether the list is empty.
HasCloseMatch(word, possibilities) ==
    \E n \in DOMAIN possibilities :
        LET x == possibilities[n]
        IN  10 * MatchingSize(x, word) >= 3 * (Len(x) + Len(word))

\* a variant in which stage 1 never short-circuits
Stage1NeverConfirms(t, bls_list) == FALSE

\* stage 1 of is_valid_industry: TRUE when the BLS list confirms the text
Stage1Confirms(t, bls_list) ==
    bls_list # <<>> /\ HasCloseMatch(LowerText(t), bls_list)

\* stage 2 of is_valid_industry: the value returned for a provider reply
Stage2Verdict(response) ==
    IF response.raises \/ ExtractRaises(response)
    THEN TRUE       \* except Exception: return True
    ELSE UpperText(Strip(extract_text_from_response(response))) = <<"Y", "E", "S">>

\* ------------------------------------------------------------ the handler
Sections == <<"EXECUTIVE SUMMARY", "MARKET DYNAMICS & SIZE",
              "KEY TECHNOLOGICAL OR SOCIAL TRENDS", "COMPETITIVE LANDSCAPE",
              "FUTURE OUTLOOK & CHALLENGES">>

\* "\n\n".join(report_parts)
RECURSIVE Join(_)
Join(parts) ==
    IF parts = <<>> THEN <<>>
    ELSE IF Len(parts) = 1 THEN parts[1]
    ELSE parts[1] \o <<NL, NL>> \o Join(Tail(parts))

\* re.sub(r"^(Here is|Certainly|Sure|As requested).*?:\n*", "", t,
\*        flags=re.IGNORECASE | re.DOTALL)
Preambles == {<<"h", "e", "r", "e", " ", "i", "s">>,
              <<"c", "e", "r", "t", "a", "i", "n", "l", "y">>,
              <<"s", "u", "r", "e">>,
              <<"a", "s", " ", "r", "e", "q", "u", "e", "s", "t", "e", "d">>}
StartsWithIgnoreCase(t, p) ==
    Len(t) >= Len(p) /\ \A i \in 1..Len(p) : Lower(t[i]) = p[i]
StripPreamble(t) ==
    LET hit == {p \in Preambles :
                   /\ StartsWithIgnoreCase(t, p)
                   /\ \E j \in (Len(p) + 1)..Len(t) : t[j] = ":"}
    IN  IF hit = {} THEN t
        ELSE LET p     == CHOOSE q \in hit : TRUE
                 colon == SetMin({j \in (Len(p) + 1)..Len(t) : t[j] = ":"})
                 rest  == {j \in (colon + 1)..Len(t) : t[j] # NL}
             IN  IF rest = {} THEN <<>>
                 ELSE SubSeq(t, SetMin(rest), Len(t))

\* a variant without the empty check
SectionNeverEmpty(section_text) == FALSE

\* "if not section_text.strip()": the section reply counts as empty
SectionIsEmpty(section_text) == Strip(section_text) = <<>>

\* a variant without the st.stop() after the rejection message
ContinueAfterValidation(ok) == "load_sources"

\* where the handler goes after is_valid_industry returned ok.  st.stop()
\* ends the script run: Streamlit's StopException derives from BaseException,
\* so neither it nor the "except Exception" of step 3 lets the run go on.
AfterValidation(ok) == IF ok THEN "load_sources" ELSE "stopped"

\* ================================================================= state
VARIABLES
    text, min_words, max_words,   \* arguments of a direct enforce_word_limits call
    first, second,                \* its result, and the result of re-applying it
    pc,                 \* where the "Generate Report" run stands
    industry, client,   \* the text input; whether a client (saved key) exists
    bls_cache,          \* st.cache_data of load_bls_industries
    fetch,              \* this run: "none", "cached", "failed", "fetched"
    stage1,             \* this run: "none", "match", "no_match"
    stage2,             \* this run: "none", "raised", "answered"
    valid,              \* is_valid_industry: "pending", "yes", "no"
    calls,              \* the network calls of this run, in order
    retrieved,          \* get_wikipedia_urls: "none", "raised", "returned"
    relevant_urls,
    report_parts,
    section_failed,     \* "no", "empty", "raised"
    display,            \* what the run has written to the page, in order
    report_text, status, final_count

limitVars == <<text, min_words, max_words, first, second>>
runVars == <<pc, industry, client, fetch, stage1, stage2, valid, calls, retrieved,
             relevant_urls, report_parts, section_failed, display,
             report_text, status, final_count>>
vars == <<limitVars, runVars, bls_cache>>

NoResult == Result(<<>>, "none")

\* the state of a run before the button is pressed
RunIdle ==
    /\ pc = "idle"
    /\ industry = <<>>
    /\ client = FALSE
    /\ fetch = "none"
    /\ stage1 = "none"
    /\ stage2 = "none"
    /\ valid = "pending"
    /\ calls = <<>>
    /\ retrieved = "none"
    /\ relevant_urls = <<>>
    /\ report_parts = <<>>
    /\ section_failed = "no"
    /\ display = <<>>
    /\ report_text = <<>>
    /\ status = "none"
    /\ final_count = 0

\* ------------------------------------------- enforce_word_limits, applied
LimitChars == {"a", " ", ".", "!", "?", ","}

InitLimits ==
    /\ text \in TextsUpTo(LimitChars, MaxLen)
    /\ min_words \in 0..MaxBound
    /\ max_words \in 0..MaxBound
    /\ first = NoResult
    /\ second = NoResult
    /\ RunIdle
    /\ bls_cache = [loaded |-> FALSE, value |-> <<>>]

\* enforce_word_limits(text, min_words, max_words)
ApplyOnce ==
    /\ first = NoResult
    /\ first' = enforce_word_limits(text, min_words, max_words)
    /\ UNCHANGED <<text, min_words, max_words, second, runVars, bls_cache>>

\* enforce_word_limits(first.text, min_words, max_words)
ApplyAgain ==
    /\ first # NoResult
    /\ second = NoResult
    /\ second' = enforce_word_limits(first.text, min_words, max_words)
    /\ UNCHANGED <<text, min_words, max_words, first, runVars, bls_cache>>

NextLimits == ApplyOnce \/ ApplyAgain

SpecLimits == InitLimits /\ [][NextLimits]_vars

\* ------------------------------------------------ the "Generate Report" run
IndustryChars == {"A", "1", " ", "-", "#"}
\* the industry texts tried on the classifier, and the few taken through the
\* whole run: blank, rejected by the gate, on the BLS list, not on it
Industries == TextsUpTo(IndustryChars, MaxIndustryLen)
RunIndustries == {<<" ">>, <<"A", "#", "A">>, <<"A", "-", "A">>, <<"1", "-", "1">>}

\* what the BLS page fetch can give: the request fails, or the anchor texts
\* the pattern finds in the page
BlsAnchors == {<<>>, << <<" ", "A", "-", "a", " ">>, <<" ">> >>}
BlsOutcomes ==
    {[fails |-> TRUE, matches |-> <<>>]}
        \cup {[fails |-> FALSE, matches |-> m] : m \in BlsAnchors}

\* replies to the classification prompt
ClassifyReplies ==
    {ProviderError, NoContent, NoCandidates,
     Reply(<<"Y", "E", "S">>), Reply(<<" ", "y", "e", "s", NL>>),
     Reply(<<"N", "O">>), Reply(<<"Y", "E", "S", ".">>),
     Response(<<Candidate(<<TextPart(<<"Y">>), DataPart,
                            TextPart(<<"E", NUL, "S", CR, NL>>)>>)>>)}

\* what the search can give: the call raises, or the pages of the titles
\* found, each existing or not
Page(n, e) == [url |-> n, exists |-> e]
SearchOutcomes ==
    {[fails |-> TRUE, pages |-> <<>>]}
        \cup {[fails |-> FALSE, pages |-> [i \in 1..Len(f) |-> Page(i, f[i])]]
                 : f \in TextsUpTo(BOOLEAN, MaxPages)}

\* a section of n one-letter words with the closing mark last
WordsText(n, last) ==
    [i \in 1..(2 * n) |-> IF i = 2 * n THEN last ELSE IF i % 2 = 1 THEN "w" ELSE " "]

\* replies to a section prompt: the call fails, nothing usable, a chatty
\* opener, a section within its word band, a section over it
SectionReplies ==
    {ProviderError, NoCandidates, Reply(<<" ", NL>>),
     Reply(<<"S", "u", "r", "e">>),
     Reply(WordsText(InBandWords, ":")),
     Reply(WordsText(OverBandWords, "."))}

Init ==
    /\ text = <<>>
    /\ min_words = MIN_WORDS
    /\ max_words = MAX_WORDS
    /\ first = NoResult
    /\ second = NoResult
    /\ RunIdle
    /\ bls_cache = [loaded |-> FALSE, value |-> <<>>]

\* is_valid_industry returns ok to the handler, which stops on False
Returned(ok) ==
    /\ valid' = IF ok THEN "yes" ELSE "no"
    /\ pc' = AfterValidation(ok)
    /\ display' = IF ok THEN display
                  ELSE Append(display, "error: not a recognised industry")

\* The button is pressed: the two input checks, then is_valid_industry up to
\* its first network call (the syntactic gate).
GenerateReport(ind, cl) ==
    /\ pc = "idle"
    /\ industry' = ind
    /\ client' = cl
    /\ IF Strip(ind) = <<>>
       THEN /\ pc' = "done"
            /\ display' = Append(display, "error: provide an industry name")
            /\ UNCHANGED valid
       ELSE IF ~cl
       THEN /\ pc' = "done"
            /\ display' = Append(display, "error: provide your API key")
            /\ UNCHANGED valid
       ELSE IF ~SyntacticGate(Strip(ind))
       THEN Returned(FALSE)
       ELSE /\ pc' = "load_bls"
            /\ UNCHANGED <<valid, display>>
    /\ UNCHANGED <<fetch, stage1, stage2, calls, retrieved, relevant_urls,
                   report_parts, section_failed, report_text, status,
                   final_count, bls_cache, limitVars>>

\* stage 1 on the list load_bls_industries returned
Stage1(bls_industries) ==
    IF Stage1Confirms(Strip(industry), bls_industries)
    THEN /\ stage1' = "match"
         /\ Returned(TRUE)
    ELSE /\ stage1' = "no_match"
         /\ pc' = "classify"
         /\ UNCHANGED <<valid, display>>

\* load_bls_industries answered from the cache
LoadBlsCached ==
    /\ pc = "load_bls"
    /\ bls_cache.loaded
    /\ fetch' = "cached"
    /\ Stage1(bls_cache.value)
    /\ UNCHANGED <<industry, client, stage2, calls, retrieved, relevant_urls,
                   report_parts, section_failed, report_text, status,
                   final_count, bls_cache, limitVars>>

\* load_bls_industries runs: requests.get, the parse, [] on any exception
FetchBls(outcome) ==
    /\ pc = "load_bls"
    /\ ~bls_cache.loaded
    /\ calls' = Append(calls, "reference list")
    /\ fetch' = IF outcome.fails THEN "failed" ELSE "fetched"
    /\ LET value == IF outcome.fails THEN <<>> ELSE ParseBls(outcome.matches)
       IN  /\ bls_cache' = [loaded |-> TRUE, value |-> value]
           /\ Stage1(value)
    /\ UNCHANGED <<industry, client, stage2, retrieved, relevant_urls,
                   report_parts, section_failed, report_text, status,
                   final_count, limitVars>>

\* stage 2: the classification prompt and its verdict
Classify(response) ==
    /\ pc = "classify"
    /\ calls' = Append(calls, "generation: classify")
    /\ stage2' = IF response.raises \/ ExtractRaises(response)
                 THEN "raised" ELSE "answered"
    /\ Returned(Stage2Verdict(response))
    /\ UNCHANGED <<industry, client, fetch, stage1, retrieved, relevant_urls,
                   report_parts, section_failed, report_text, status,
                   final_count, bls_cache, limitVars>>

\* get_wikipedia_urls and the handler's check of its result
RECURSIVE ExistingUrls(_)
ExistingUrls(pages) ==
    IF pages = <<>> THEN <<>>
    ELSE (IF Head(pages).exists THEN <<Head(pages).url>> ELSE <<>>)
             \o ExistingUrls(Tail(pages))

LoadSources(outcome) ==
    /\ pc = "load_sources"
    /\ calls' = Append(calls, "search")
    /\ IF outcome.fails
       THEN /\ retrieved' = "raised"
            /\ pc' = "crashed"
            /\ display' = Append(display, "exception")
            /\ UNCHANGED relevant_urls
       ELSE /\ retrieved' = "returned"
            /\ relevant_urls' = ExistingUrls(outcome.pages)
            /\ IF ExistingUrls(outcome.pages) = <<>>
               THEN /\ pc' = "stopped"
                    /\ display' = Append(display, "warning: no pages found")
               ELSE /\ pc' = "section"
                    /\ display' = Append(display, "sources")
    /\ UNCHANGED <<industry, client, fetch, stage1, stage2, valid,
                   report_parts, section_failed, report_text, status,
                   final_count, bls_cache, limitVars>>

\* the status line under the report
StatusMessage(s) ==
    IF s = "too_short" THEN "warning: under 450 words"
    ELSE IF s = "truncated" THEN "info: trimmed"
    ELSE "success: meets the target"

\* One turn of the section loop: the prompt for the next heading, the reply,
\* the empty check; after the fifth section the combine, the preamble strip,
\* enforce_word_limits and the display.
SectionCall(response) ==
    /\ pc = "section"
    /\ calls' = Append(calls, Sections[Len(report_parts) + 1])
    /\ IF response.raises \/ ExtractRaises(response)
       THEN /\ section_failed' = "raised"
            /\ pc' = "done"
            /\ display' = Append(display, "error: generating report")
            /\ UNCHANGED <<report_parts, report_text, status, final_count>>
       ELSE LET section_text == extract_text_from_response(response)
                parts        == Append(report_parts, Strip(section_text))
            IN  IF SectionIsEmpty(section_text)
                THEN /\ section_failed' = "empty"
                     /\ pc' = "stopped"
                     /\ display' = Append(display, "error: empty section")
                     /\ UNCHANGED <<report_parts, report_text, status, final_count>>
                ELSE /\ report_parts' = parts
                     /\ UNCHANGED section_failed
                     /\ IF Len(parts) < Len(Sections)
                        THEN UNCHANGED <<pc, display, report_text, status, final_count>>
                        ELSE LET r == enforce_word_limits(
                                          Strip(StripPreamble(Join(parts))),
                                          MIN_WORDS, MAX_WORDS)
                             IN  /\ report_text' = r.text
                                 /\ status' = r.status
                                 /\ final_count' = word_count(r.text)
                                 /\ display' = display \o
                                        <<"report", "info: final word count",
                                          StatusMessage(r.status)>>
                                 /\ pc' = "done"
    /\ UNCHANGED <<industry, client, fetch, stage1, stage2, valid, retrieved,
                   relevant_urls, bls_cache, limitVars>>

\* the script runs again on the next interaction; the cache outlives the run
Rerun ==
    /\ pc \in {"done", "stopped", "crashed"}
    /\ pc' = "idle"
    /\ industry' = <<>>
    /\ client' = FALSE
    /\ fetch' = "none"
    /\ stage1' = "none"
    /\ stage2' = "none"
    /\ valid' = "pending"
    /\ calls' = <<>>
    /\ retrieved' = "none"
    /\ relevant_urls' = <<>>
    /\ report_parts' = <<>>
    /\ section_failed' = "no"
    /\ display' = <<>>
    /\ report_text' = <<>>
    /\ status' = "none"
    /\ final_count' = 0
    /\ UNCHANGED <<bls_cache, limitVars>>

Next ==
    \/ \E ind \in RunIndustries, cl \in BOOLEAN : GenerateReport(ind, cl)
    \/ LoadBlsCached
    \/ \E outcome \in BlsOutcomes : FetchBls(outcome)
    \/ \E response \in ClassifyReplies : Classify(response)
    \/ \E outcome \in SearchOutcomes : LoadSources(outcome)
    \/ \E response \in SectionReplies : SectionCall(response)
    \/ Rerun

Spec == Init /\ [][Next]_vars

\* The validation and retrieval stages alone, over every industry text up
\* to MaxIndustryLen.
NextValidate ==
    \/ \E ind \in Industries, cl \in BOOLEAN : GenerateReport(ind, cl)
    \/ LoadBlsCached
    \/ \E outcome \in BlsOutcomes : FetchBls(outcome)
    \/ \E response \in ClassifyReplies : Classify(response)
    \/ \E outcome \in SearchOutcomes : LoadSources(outcome)
    \/ Rerun

SpecValidate == Init /\ [][NextValidate]_vars

\* ================================================================ claims
\* p is a prefix of t
IsPrefix(p, t) == Len(p) <= Len(t) /\ SubSeq(t, 1, Len(p)) = p
\* the character of t that follows its prefix p, "" at the end of t
FollowingChar(p, t) == IF Len(p) < Len(t) THEN t[Len(p) + 1] ELSE ""

\* C1: whenever word_count(t) > max_words (max_words >= 0, 0 included),
\* enforce_word_limits returns status 'truncated' and a text of at most
\* max_words words.
C1_TruncatedWithinLimit ==
    (first # NoResult /\ word_count(text) > max_words)
        => (first.status = "truncated" /\ word_count(first.text) <= max_words)

\* C2 as stated: whenever word_count(t) < min_words, whatever the order of
\* min_words and max_words, the text comes back unchanged with 'too_short'.
\* (Taken at max_words >= 1, where truncation keeps to the limit, so that the
\* refutation does not rest on the max_words = 0 indexing of C1.)
C2_TooShortUnconditional ==
    (first # NoResult /\ max_words >= 1 /\ word_count(text) < min_words)
        => first = Result(text, "too_short")

\* C2 amended: whenever word_count(t) < min_words and word_count(t) does not
\* exceed max_words, the text comes back unchanged with 'too_short'.
C2_TooShortUnlessOverMax ==
    (first # NoResult /\ word_count(text) < min_words
                      /\ word_count(text) <= max_words)
        => first = Result(text, "too_short")

C2_Witness ==
    /\ first = Result(text, "too_short")
    /\ word_count(text) > 0
    /\ min_words > max_words

\* C3 as stated: a second application with the same bounds returns the same
\* text and the same status as the first.  (Taken at max_words >= 1, as C2.)
C3_Idempotent == (second # NoResult /\ max_words >= 1) => (second = first)

\* C3 amended: a second application returns the first result unchanged when
\* the first status was 'ok' or 'too_short'; after a truncation that is within
\* max_words it returns the same text with status 'ok' or 'too_short', never
\* 'truncated' again.
C3_IdempotentOnText ==
    (second # NoResult) =>
        /\ (first.status # "truncated") => (second = first)
        /\ (first.status = "truncated" /\ word_count(first.text) <= max_words)
              => (second.text = first.text /\ second.status \in {"ok", "too_short"})

C3_Witness ==
    /\ second # NoResult
    /\ first.status = "truncated"
    /\ first.text # text
    /\ second.text = first.text
    /\ second.status = "ok"

\* C4 as stated: on truncation the result is a prefix of t and the character
\* of t right after it is whitespace or the end of t.  (Taken at
\* max_words >= 1, as C2.)
C4_CutAtWhitespace ==
    (first.status = "truncated" /\ max_words >= 1) =>
        /\ IsPrefix(first.text, text)
        /\ (FollowingChar(first.text, text) = ""
                \/ IsSpace(FollowingChar(first.text, text)))

\* C4 amended: on truncation the result is a prefix of t that does not end
\* inside a word: it ends with the '.', '!' or '?' it was trimmed back to, or
\* the character of t right after it is a non-word character or the end of t.
C4_CutAtWordBoundary ==
    (first.status = "truncated") =>
        /\ IsPrefix(first.text, text)
        /\ \/ EndsWithTerminator(first.text)
           \/ FollowingChar(first.text, text) = ""
           \/ ~IsWordChar(FollowingChar(first.text, text))

C4_Witness ==
    /\ first.status = "truncated"
    /\ max_words > 0
    /\ EndsWithTerminator(first.text)
    /\ IsWordChar(FollowingChar(first.text, text))

\* ---------------------------------------------------------- the run's claims
Range(f) == {f[i] : i \in DOMAIN f}
ClassifyCalls == SelectSeq(calls, LAMBDA c : c = "generation: classify")
SectionCalls == SelectSeq(calls, LAMBDA c : c \in Range(Sections))
ReportShown == "report" \in Range(display)
LastShown == IF display = <<>> THEN "" ELSE display[Len(display)]
\* is_valid_industry has been entered in this run
Validating == pc # "idle" /\ Strip(industry) # <<>> /\ client

\* the inputs C6 names: trimmed length < 3, only digits, or a character
\* outside Latin letters, digits, whitespace and & , . - /
NamedForRejection(t) ==
    \/ Len(t) < 3
    \/ (Len(t) > 0 /\ \A i \in 1..Len(t) : t[i] \in Digits)
    \/ \E i \in 1..Len(t) :
          t[i] \notin (Letters \cup Digits \cup Spaces \cup {"&", ",", ".", "-", "/"})

\* the reference list in the cache has an entry close to the industry text
ListMatches ==
    /\ bls_cache.value # <<>>
    /\ HasCloseMatch(LowerText(Strip(industry)), bls_cache.value)

\* C5: when the classification call fails (exception, timeout, malformed
\* response) after the gate passed and the list gave no match,
\* is_valid_industry returns false and the run stops before retrieval.
C5_RejectsOnProviderError ==
    (stage2 = "raised") =>
        /\ valid = "no"
        /\ pc = "stopped"
        /\ "search" \notin Range(calls)

\* C6: an input whose trimmed form is shorter than 3, all digits, or holds a
\* character outside the allowed set is rejected with no network call made.
C6_GateRejectsBeforeNetwork ==
    (Validating /\ NamedForRejection(Strip(industry)))
        => (valid = "no" /\ calls = <<>>)

C6_Witness ==
    /\ Validating
    /\ Len(Strip(industry)) >= 3
    /\ IsDigit(Strip(industry))
    /\ valid = "no"
    /\ calls = <<>>

\* C7: the search is called only after the classifier returned true, the
\* section prompts only after the search returned a non-empty list; a false
\* verdict or an empty list stops the run with its own message and no later
\* stage's call.
C7_ForwardOnly ==
    /\ ("search" \in Range(calls)) => (valid = "yes")
    /\ (SectionCalls # <<>>) => (retrieved = "returned" /\ relevant_urls # <<>>)
    /\ (valid = "no") =>
          /\ pc = "stopped"
          /\ LastShown = "error: not a recognised industry"
          /\ "search" \notin Range(calls)
          /\ SectionCalls = <<>>
    /\ (retrieved = "returned" /\ relevant_urls = <<>>) =>
          /\ pc = "stopped"
          /\ LastShown = "warning: no pages found"
          /\ SectionCalls = <<>>

C7_Witness ==
    /\ valid = "yes"
    /\ retrieved = "returned"
    /\ relevant_urls = <<>>
    /\ pc = "stopped"

\* C8: the report is shown only after all five section calls, made one at a
\* time in the heading order, each returned non-empty text; when a section
\* call returns nothing usable or raises, the run ends with an error and shows
\* no report text.
C8_NoPartialReport ==
    /\ IsPrefix(SectionCalls, Sections)
    /\ ReportShown =>
          /\ SectionCalls = Sections
          /\ section_failed = "no"
          /\ Len(report_parts) = Len(Sections)
          /\ \A i \in 1..Len(report_parts) : Strip(report_parts[i]) # <<>>
    /\ (section_failed # "no") =>
          /\ pc \in {"stopped", "done"}
          /\ LastShown \in {"error: empty section", "error: generating report"}
          /\ ~ReportShown
          /\ report_text = <<>>

C8_Witness ==
    /\ section_failed = "empty"
    /\ Len(report_parts) >= 2
    /\ ~ReportShown
    /\ pc = "stopped"

\* C9: when all five section calls return non-empty text, the report shown has
\* 450..500 words with status 'ok', or has status 'truncated' or 'too_short'
\* and is still non-empty.
C9_ReportInBandOrFlagged ==
    ReportShown =>
        \/ (status = "ok" /\ final_count >= MIN_WORDS /\ final_count <= MAX_WORDS)
        \/ (status \in {"truncated", "too_short"} /\ report_text # <<>>)

\* C10: in one call of is_valid_industry the generation provider is invoked at
\* most once, and only when the gate passed and the reference list gave no
\* match; a match returns true with no generation call; a failed fetch goes on
\* to the model stage instead of rejecting.
C10_ModelStageOnlyWithoutMatch ==
    /\ Len(ClassifyCalls) <= 1
    /\ (ClassifyCalls # <<>>) =>
          /\ ~NamedForRejection(Strip(industry))
          /\ bls_cache.loaded
          /\ ~ListMatches
    /\ (fetch # "none" /\ ListMatches) => (valid = "yes" /\ ClassifyCalls = <<>>)
    /\ (fetch = "failed") =>
          /\ pc = "classify" \/ ClassifyCalls # <<>>
          /\ (valid = "no") => (stage2 = "answered")

C10_Witness ==
    /\ fetch = "fetched"
    /\ bls_cache.value # <<>>
    /\ Len(ClassifyCalls) = 1
    /\ valid = "no"

====
